---- MODULE Spec2Model ----
(***************************************************************************)
(* CIMDiagramLayoutEditor: the application state of src/services/          *)
(* AppState.ts (interaction state machine, optimistic insert/delete of     *)
(* points) and DiagramService.loadDiagramLayout, as a state machine.       *)
(*                                                                         *)
(* JavaScript objects are heap cells.  A DiagramModel is a generation      *)
(* number g >= 1 (0 is null), a DiagramObjectModel is <<g, o>> and a       *)
(* PointModel is <<g, o, iri>>: its parentObject is <<g, o>> and its iri   *)
(* is the third component; x, y and sequenceNumber are mutable fields      *)
(* held in pt.  Two generations hold different objects that carry the      *)
(* same iris, as after a reload.  A generation that neither diagramData    *)
(* nor a pending call references is garbage: it is dropped from the heap   *)
(* and its number is used again.                                           *)
(***************************************************************************)
EXTENDS Integers, Sequences, FiniteSets, TLC

\* ---------------------------------------------------------------- bounds
\* PointModel instances built by addNewPointToLine.
MaxNew == 1
\* Remote calls in flight at the same time.
MaxPending == 1
\* startDragging calls that take effect.
MaxDrags == 1
\* zoom calls.
MaxZooms == 1
\* The view offsets stay within -MaxOffset..MaxOffset.
MaxOffset == 12

\* ------------------------------------------------------------- constants
\* AppConfig.dragThreshold
DragThreshold == 1

\* The scale and the offsets of the view are fractions: <<n, d>> with d > 0
\* and n, d without a common divisor is the number n / d.
RECURSIVE GCD(_, _)
GCD(a, b) == IF b = 0 THEN a ELSE GCD(b, a % b)
QNorm(n, d) ==
  LET g == GCD(IF n < 0 THEN -n ELSE n, IF d < 0 THEN -d ELSE d)
      sgn == IF d < 0 THEN -1 ELSE 1
  IN  <<(sgn * n) \div g, (sgn * d) \div g>>
Q(n) == <<n, 1>>
QAdd(a, b) == QNorm(a[1] * b[2] + b[1] * a[2], a[2] * b[2])
QSub(a, b) == QNorm(a[1] * b[2] - b[1] * a[2], a[2] * b[2])
QMul(a, b) == QNorm(a[1] * b[1], a[2] * b[2])
QDiv(a, b) == QNorm(a[1] * b[2], a[2] * b[1])
QLeq(a, b) == a[1] * b[2] <= b[1] * a[2]
QAbs(a) == <<IF a[1] < 0 THEN -a[1] ELSE a[1], a[2]>>

\* AppConfig.view.initialScale / initialOffsetX / initialOffsetY
InitialView == [scale |-> Q(1), offsetX |-> Q(0), offsetY |-> Q(0)]
\* AppConfig.canvas.zoomFactor
ZoomFactor == <<11, 10>>

Null == <<>>
NoMap == [i \in {} |-> <<0, 0>>]

\* The layout held by the remote store when the session starts: object
\* name -> iris in sequence order, and each iri's coordinates.
ObjNames == {1, 2}
BaseLayout == <<(<<1, 2, 3>>), (<<4>>)>>
BaseIris == {1, 2, 3, 4}
BaseXY == <<(<<0, 0>>), (<<2, 0>>), (<<2, 2>>), (<<9, 9>>)>>
\* GluePointState: the glue connections, pairs of iris of points of
\* different objects.
GluePairs == {{2, 4}}
GluedTo(i) == {j \in BaseIris : j # i /\ {i, j} \in GluePairs}
\* uuidv4(): the k-th iri generated, different from every other iri.
NewIri(k) == 10 + k
Iris == BaseIris \cup {NewIri(k) : k \in 1..MaxNew}

\* Inputs.
DiagramIris == {1}
NoDiagram == 0
AddPositions == {<<1, 1>>}
\* The object edited and the points clicked on while editing.
EditObjects == {1}
EditIris == {1, 2, 3} \cup {NewIri(k) : k \in 1..MaxNew}
InsertIndices == {-1, 0, 1, 3}

\* ------------------------------------------------------------------ state
VARIABLES
  diagramData,       \* store: the current DiagramModel (0 = null)
  newCount,          \* iris generated so far
  dgPts,             \* DiagramModel.points: [g -> Seq(PointModel)]
  objPts,            \* DiagramObjectModel.points: [<<g,o>> -> Seq(PointModel)]
  pt,                \* PointModel fields: [<<g,o,iri>> -> [x, y, sequenceNumber]]
  interactionState,  \* store: mode, dragStart, dragEnd, panStart,
                     \*        selectedPoints, originalPositions
  viewTransform,     \* store: scale, offsetX, offsetY
  positionUpdateEvent, \* store: null or [points, dx, dy]
  isLoading,         \* store
  statusText,        \* store
  selectedDiagram,   \* store
  cgmesVersion,      \* store
  diagramList,       \* store: the diagrams found, a sequence of diagram iris
  endpoint,          \* sparqlService: the endpoint set ("" = none)
  remote,            \* the remote store: [iri -> [obj, seq, x, y]], obj 0 = absent
  calls,             \* remote calls awaiting their result
  nPublished,        \* history: positionUpdateEvent.set calls so far, modulo 2
  dragCount,         \* history: startDragging calls that took effect
  gesture,           \* history: "none", or since the last startDragging that
                     \*   took effect only updateDragging and
                     \*   togglePointSelection ran ("clean"), or more ("dirty")
  ptAtStart,         \* history: the coordinates of the diagram's points when
                     \*   that startDragging ran
  nCompleted,        \* history: completeSelecting calls so far, modulo 2
  panOrigin,         \* history: null, or the position and the view offsets of
                     \*   the startPanning that began the pan under way
  zoomCount          \* history: zoom calls so far

heap == <<diagramData, newCount, dgPts, objPts, pt>>
ui == <<isLoading, statusText, selectedDiagram, cgmesVersion, diagramList,
       endpoint>>
vars == <<diagramData, newCount, dgPts, objPts, pt, interactionState,
          viewTransform, positionUpdateEvent, isLoading, statusText,
          selectedDiagram, cgmesVersion, diagramList, endpoint, remote, calls,
          nPublished,
          dragCount, gesture, ptAtStart, nCompleted, panOrigin, zoomCount>>
hist == <<nPublished, dragCount, gesture, ptAtStart, nCompleted, panOrigin,
          zoomCount>>

\* ---------------------------------------------------------------- helpers
Range(s) == {s[k] : k \in 1..Len(s)}
IriOf(p) == p[3]
ParentOf(p) == <<p[1], p[2]>>
IrisOf(s) == {IriOf(s[k]) : k \in 1..Len(s)}

MinFirst(a, b) == a
Min(a, b) == IF a < b THEN a ELSE b
Max(a, b) == IF a > b THEN a ELSE b
Abs(a) == IF a < 0 THEN -a ELSE a

\* Array.prototype.findIndex(p => p.iri === iri): 0-based, -1 when absent.
FindIndex(s, iri) ==
  IF \E k \in 1..Len(s) : IriOf(s[k]) = iri
  THEN (CHOOSE k \in 1..Len(s) :
          /\ IriOf(s[k]) = iri
          /\ \A j \in 1..(k - 1) : IriOf(s[j]) # iri) - 1
  ELSE -1

\* Array.prototype.splice's start: a negative start counts from the end,
\* a start beyond the length is the length.
SpliceStart(s, start) ==
  IF start < 0 THEN Max(Len(s) + start, 0) ELSE Min(start, Len(s))

SpliceAppend(s, start, item) == Append(s, item)

\* s.splice(start, 0, item)
SpliceInsert(s, start, item) ==
  LET a == SpliceStart(s, start)
  IN  SubSeq(s, 1, a) \o <<item>> \o SubSeq(s, a + 1, Len(s))

SpliceDeleteEnd(s, start) == SubSeq(s, 1, Len(s) - 1)

\* s.splice(start, 1)
SpliceDelete(s, start) ==
  LET a == SpliceStart(s, start)
  IN  SubSeq(s, 1, a) \o SubSeq(s, a + 2, Len(s))

FilterOutNone(s, iri) == s

\* s.filter(p => p.iri !== iri)
FilterOut(s, iri) == SelectSeq(s, LAMBDA p : IriOf(p) # iri)

RenumberSkipped(f, list) == f

\* list.forEach((point, index) => point.sequenceNumber = index)
Renumber(f, list) ==
  [p \in DOMAIN f |->
     IF p \in Range(list)
     THEN [f[p] EXCEPT !.sequenceNumber =
             (CHOOSE k \in 1..Len(list) :
                /\ list[k] = p
                /\ \A j \in (k + 1)..Len(list) : list[j] # p) - 1]
     ELSE f[p]]

\* object.points.map(p => ({iri: p.iri, sequenceNumber: p.sequenceNumber}))
SequenceUpdates(f, list) ==
  [k \in 1..Len(list) |-> <<IriOf(list[k]), f[list[k]].sequenceNumber>>]

AllPoints == DOMAIN pt
CurrentPoints == IF diagramData = 0 THEN <<>> ELSE dgPts[diagramData]
CurrentObjects == {o \in DOMAIN objPts : o[1] = diagramData}
\* The PointModel instances of the current diagram's objects, those that a
\* delete or a rollback has taken out of the lists included.
CurrentPointModels == {p \in DOMAIN pt : p[1] = diagramData}

NoCall == [op |-> "none", dg |-> 0, obj |-> <<0, 0>>, pnt |-> <<0, 0, 0>>,
           idx |-> 0, pos |-> <<0, 0>>, upd |-> <<>>, nested |-> FALSE,
           pre |-> <<>>, id |-> 0]
\* Each invocation awaits a promise of its own: the least number that no call
\* of cs carries tells it from the others.
NextCallId(cs) ==
  LET used == {cs[k].id : k \in 1..Len(cs)}
  IN  CHOOSE i \in 1..(Len(cs) + 1) :
        /\ i \notin used
        /\ \A h \in 1..(i - 1) : h \in used
\* What a call finds when it starts: the object's list, the sequence numbers
\* of the points in it, the diagram's flattened list, the selection.
Found(object) ==
  [list |-> objPts[object],
   seq |-> [p \in Range(objPts[object]) |-> pt[p].sequenceNumber],
   flat |-> dgPts[diagramData]]
\* The generations reachable from diagramData dd and the pending calls cs
\* (addNewPointToLine keeps currentDiagram and object for its rollback).
LiveGens(dd, cs) ==
  {dd} \cup {cs[k].dg : k \in {j \in 1..Len(cs) : cs[j].op = "add"}}
\* The number of the next DiagramModel built: the least one that no pending
\* call cs references.
FreshGen(cs) ==
  LET held == {cs[k].dg : k \in {j \in 1..Len(cs) : cs[j].op = "add"}}
  IN  CHOOSE g \in 1..(Len(cs) + 1) :
        /\ g \notin held
        /\ \A h \in 1..(g - 1) : h \in held
Restrict(f, D) == [a \in D |-> f[a]]
LiveDiagrams(f, dd, cs) == Restrict(f, DOMAIN f \cap LiveGens(dd, cs))
LiveCells(f, dd, cs) == Restrict(f, {a \in DOMAIN f : a[1] \in LiveGens(dd, cs)})
KeptAt(s, k) == s

\* The calls s without the k-th: the invocation it stood for has completed.
RemoveAt(s, k) == SubSeq(s, 1, k - 1) \o SubSeq(s, k + 1, Len(s))

IssuedTwice(cs, c) == Append(Append(cs, c), c)

\* await sparqlService.insertNewPoint(...) / deletePoint(...): the call c
\* joins the calls cs that await their result.
Issued(cs, c) == Append(cs, c)

\* ------------------------------------------------------- the remote store
InitialRemote ==
  [i \in Iris |->
     IF i \in BaseIris
     THEN LET o == CHOOSE n \in ObjNames : i \in Range(BaseLayout[n])
              k == CHOOSE j \in 1..Len(BaseLayout[o]) : BaseLayout[o][j] = i
          IN  [obj |-> o, seq |-> k - 1, x |-> BaseXY[i][1], y |-> BaseXY[i][2]]
     ELSE [obj |-> 0, seq |-> 0, x |-> 0, y |-> 0]]

\* The sequence updates of a call applied to the store.
ApplyUpdates(r, upd) ==
  [i \in DOMAIN r |->
     IF \E k \in 1..Len(upd) : upd[k][1] = i /\ r[i].obj # 0
     THEN [r[i] EXCEPT !.seq = upd[CHOOSE k \in 1..Len(upd) : upd[k][1] = i][2]]
     ELSE r[i]]

\* insertPoint(point, siblingSequenceUpdates)
RemoteInsert(r, c) ==
  ApplyUpdates([r EXCEPT ![IriOf(c.pnt)] =
                  [obj |-> c.obj[2], seq |-> c.idx, x |-> c.pos[1], y |-> c.pos[2]]],
               c.upd)

\* deletePoint(pointId, siblingSequenceUpdates)
RemoteDelete(r, c) ==
  ApplyUpdates([r EXCEPT ![IriOf(c.pnt)].obj = 0], c.upd)

\* The iris of a set in the store's order: by sequence number, then by iri.
RECURSIVE SortIris(_, _)
SortIris(r, S) ==
  IF S = {} THEN <<>>
  ELSE LET m == CHOOSE i \in S :
                  \A j \in S : \/ r[i].seq < r[j].seq
                               \/ r[i].seq = r[j].seq /\ i <= j
       IN  <<m>> \o SortIris(r, S \ {m})

\* loadLayout(diagramId): each object's iris in order.
RemoteLayout(r, o) == SortIris(r, {i \in DOMAIN r : r[i].obj = o})

\* ------------------------------------------------------------------- init
InitialInteractionState ==
  [mode |-> "NONE", dragStart |-> Null, dragEnd |-> Null, panStart |-> Null,
   selectedPoints |-> {}, originalPositions |-> NoMap]

Init ==
  /\ diagramData = 0
  /\ newCount = 0
  /\ dgPts = [g \in {} |-> <<>>]
  /\ objPts = [o \in {} |-> <<>>]
  /\ pt = [p \in {} |-> [x |-> 0, y |-> 0, sequenceNumber |-> 0]]
  /\ interactionState = InitialInteractionState
  /\ viewTransform = InitialView
  /\ positionUpdateEvent = Null
  /\ isLoading = FALSE
  /\ statusText = "Ready"
  /\ selectedDiagram = NoDiagram
  /\ cgmesVersion = "3.0"
  /\ diagramList = <<>>
  /\ endpoint = ""
  /\ remote = InitialRemote
  /\ calls = <<>>
  /\ nPublished = 0
  /\ dragCount = 0
  /\ gesture = "none"
  /\ ptAtStart = NoMap
  /\ nCompleted = 0
  /\ panOrigin = Null
  /\ zoomCount = 0

\* A step other than updateDragging and togglePointSelection interrupts the
\* drag gesture under way, if there is one.
InterruptedDrag ==
  /\ gesture' = IF gesture = "none" THEN "none" ELSE "dirty"
  /\ UNCHANGED <<nPublished, dragCount, ptAtStart, nCompleted, zoomCount>>

\* The same for a step that leaves the mode, panStart and the view alone, so
\* that a pan under way goes on.
Interrupted ==
  /\ InterruptedDrag
  /\ UNCHANGED panOrigin

\* ------------------------------------------------ selection (AppState.ts)
\* clearSelection's update of the interaction state.
ClearedSelection(state) == [state EXCEPT !.selectedPoints = {}]

AddedToSelection(state, pointIri) ==
  [state EXCEPT !.selectedPoints = @ \cup {pointIri}]

\* togglePointSelection's update of the interaction state.
ToggledSelection(state, pointIri) ==
  [state EXCEPT !.selectedPoints =
     IF pointIri \in @ THEN @ \ {pointIri} ELSE @ \cup {pointIri}]

TogglePointSelection(pointIri) ==
  /\ interactionState' = ToggledSelection(interactionState, pointIri)
  /\ UNCHANGED <<heap, ui, viewTransform, positionUpdateEvent, remote, calls>>
  /\ UNCHANGED hist

\* ConfigPanel.handleDiagramChange
SetSelectedDiagram(diagramIri) ==
  /\ selectedDiagram' = diagramIri
  /\ UNCHANGED <<heap, isLoading, statusText, cgmesVersion, diagramList, endpoint,
                 interactionState,
                 viewTransform, positionUpdateEvent, remote, calls>>
  /\ Interrupted

\* ----------------------------------------- DiagramService.loadDiagramProfiles
\* Endpoints typed in, and isValidEndpoint (services/utils/sparql-utils).
Endpoints == {"", "http://localhost/sparql"}
IsValidEndpoint(e) == e # ""
\* The responses of the diagrams query: the diagram iris found.
DiagramLists == {<<>>, <<1>>}

LoadingSetFirst(loading) == TRUE

\* isLoading after a refusal: the throw comes before setLoading(true).
LoadingAfterRefusal(loading) == loading

\* The synchronous part of loadDiagramProfiles(e), up to the await of the
\* diagrams query; called by ConfigPanel.handleLoadDiagrams, which shows a
\* thrown error as status text.
LoadDiagramProfiles(e) ==
  /\ IF ~IsValidEndpoint(e)
     THEN /\ statusText' = "Error: Please enter a valid SPARQL endpoint URL"
          /\ isLoading' = LoadingAfterRefusal(isLoading)
          /\ UNCHANGED <<endpoint, calls>>
     ELSE /\ Len(calls) < MaxPending
          /\ isLoading' = TRUE
          /\ statusText' = "Loading diagram profiles..."
          /\ endpoint' = e
          /\ calls' = Append(calls, [NoCall EXCEPT !.op = "profiles",
                                                  !.id = NextCallId(calls)])
  /\ UNCHANGED <<heap, selectedDiagram, cgmesVersion, diagramList,
                 interactionState, viewTransform, positionUpdateEvent, remote>>
  /\ Interrupted

\* The diagrams query resolved with the diagrams found: the rest of the try
\* block and the finally.
ProfilesQueryResolved(k, found) ==
  /\ k \in 1..Len(calls)
  /\ calls[k].op = "profiles"
  /\ diagramList' = found
  /\ statusText' = IF found = <<>> THEN "No diagrams found" ELSE "Found diagrams"
  /\ isLoading' = FALSE
  /\ calls' = RemoveAt(calls, k)
  /\ UNCHANGED <<heap, selectedDiagram, cgmesVersion, endpoint,
                 interactionState,
                 viewTransform, positionUpdateEvent, remote>>
  /\ Interrupted

\* The diagrams query rejected: the catch and the finally.
ProfilesQueryRejected(k) ==
  /\ k \in 1..Len(calls)
  /\ calls[k].op = "profiles"
  /\ statusText' = "Error: executeQuery failed"
  /\ isLoading' = FALSE
  /\ calls' = RemoveAt(calls, k)
  /\ UNCHANGED <<heap, selectedDiagram, cgmesVersion, diagramList, endpoint,
                 interactionState, viewTransform, positionUpdateEvent, remote>>
  /\ Interrupted

\* ------------------------------------------- DiagramService.loadDiagramLayout
\* The synchronous part of loadDiagramLayout(diagramIri), up to the await of
\* the layout query; called by ConfigPanel.handleRenderDiagram, which shows a
\* thrown error as status text.
LoadDiagramLayout(diagramIri) ==
  /\ IF diagramIri = NoDiagram
     THEN /\ statusText' = "Error: Please select a diagram"
          /\ isLoading' = LoadingAfterRefusal(isLoading)
          /\ UNCHANGED <<viewTransform, interactionState, calls>>
     ELSE /\ Len(calls) < MaxPending
          /\ isLoading' = TRUE
          /\ statusText' = "Loading diagram layout data..."
          /\ viewTransform' = InitialView
          /\ interactionState' = ClearedSelection(interactionState)
          /\ calls' = Append(calls, [NoCall EXCEPT !.op = "load",
                                                  !.id = NextCallId(calls)])
  /\ UNCHANGED <<heap, selectedDiagram, cgmesVersion, diagramList, endpoint,
                 positionUpdateEvent,
                 remote>>
  /\ InterruptedDrag
  /\ panOrigin' = IF diagramIri = NoDiagram THEN panOrigin ELSE Null

RECURSIVE Flatten(_, _)
Flatten(lists, n) == IF n = 0 THEN <<>> ELSE Flatten(lists, n - 1) \o lists[n]

\* DiagramModel.fromSparqlResults(response): generation g built from the
\* store's layout; every point's sequenceNumber is its index.
LoadedLists(g) ==
  [o \in ObjNames |->
     [k \in 1..Len(RemoteLayout(remote, o)) |-> <<g, o, RemoteLayout(remote, o)[k]>>]]

LoadedFlat(g) == Flatten(LoadedLists(g), Cardinality(ObjNames))
LoadedObjects(g) == [o \in {<<g, n>> : n \in ObjNames} |-> LoadedLists(g)[o[2]]]
LoadedPoints(g) ==
  [p \in Range(LoadedFlat(g)) |->
     [x |-> remote[IriOf(p)].x, y |-> remote[IriOf(p)].y,
      sequenceNumber |-> FindIndex(LoadedLists(g)[p[2]], IriOf(p))]]

\* The layout query resolved: the rest of loadDiagramLayout's try block and
\* its finally; when a deletePointFromLine awaits this load, that call's
\* finally follows.
LayoutQueryResolved(k) ==
  /\ k \in 1..Len(calls)
  /\ calls[k].op = "load"
  /\ calls' = RemoveAt(calls, k)
  /\ LET g == FreshGen(calls')
     IN  /\ diagramData' = g
         /\ objPts' = LoadedObjects(g) @@ LiveCells(objPts, g, calls')
         /\ pt' = LoadedPoints(g) @@ LiveCells(pt, g, calls')
         /\ dgPts' = (g :> LoadedFlat(g)) @@ LiveDiagrams(dgPts, g, calls')
  /\ statusText' = "Loaded diagram"
  /\ isLoading' = FALSE
  /\ UNCHANGED <<newCount, selectedDiagram, cgmesVersion, diagramList, endpoint,
                 interactionState,
                 viewTransform, positionUpdateEvent, remote>>
  /\ Interrupted

\* The layout query rejected: loadDiagramLayout's catch and finally.
LayoutQueryRejected(k) ==
  /\ k \in 1..Len(calls)
  /\ calls[k].op = "load"
  /\ statusText' = "Error: executeQuery failed"
  /\ isLoading' = FALSE
  /\ calls' = RemoveAt(calls, k)
  /\ UNCHANGED <<heap, selectedDiagram, cgmesVersion, diagramList, endpoint,
                 interactionState,
                 viewTransform, positionUpdateEvent, remote>>
  /\ Interrupted

\* ------------------------------------------------------ addNewPointToLine
\* The synchronous part, up to the await of sparqlService.insertNewPoint.
\* A DiagramObjectModel exists only once a diagram is loaded, and diagramData
\* is never set back to null, so the early returns are not taken.
AddNewPointToLine(object, position, insertIndex) ==
  /\ diagramData # 0
  /\ newCount < MaxNew
  /\ Len(calls) < MaxPending
  /\ LET newPoint == <<object[1], object[2], NewIri(newCount + 1)>>
         list == SpliceInsert(objPts[object], insertIndex, newPoint)
         created == pt @@ (newPoint :> [x |-> position[1], y |-> position[2],
                                        sequenceNumber |-> insertIndex])
     IN  /\ objPts' = [objPts EXCEPT ![object] = list]
         /\ pt' = Renumber(created, list)
         /\ dgPts' = [dgPts EXCEPT ![diagramData] = Append(@, newPoint)]
         /\ calls' = Issued(calls,
                       [NoCall EXCEPT !.op = "add", !.dg = diagramData,
                                      !.id = NextCallId(calls),
                                      !.obj = object, !.pnt = newPoint,
                                      !.idx = insertIndex, !.pos = position,
                                      !.upd = SequenceUpdates(pt', list),
                                      !.pre = Found(object)])
  /\ newCount' = newCount + 1
  /\ isLoading' = TRUE
  /\ statusText' = "Adding new point..."
  /\ UNCHANGED <<diagramData, selectedDiagram, cgmesVersion, diagramList, endpoint,
                 interactionState,
                 viewTransform, positionUpdateEvent, remote>>
  /\ Interrupted

\* insertNewPoint resolved: the rest of the try block and the finally.
InsertNewPointResolved(k) ==
  /\ k \in 1..Len(calls)
  /\ calls[k].op = "add"
  /\ remote' = RemoteInsert(remote, calls[k])
  /\ statusText' = "New point added"
  /\ interactionState' =
       ToggledSelection(ClearedSelection(interactionState), IriOf(calls[k].pnt))
  /\ isLoading' = FALSE
  /\ calls' = RemoveAt(calls, k)
  /\ objPts' = LiveCells(objPts, diagramData, calls')
  /\ pt' = LiveCells(pt, diagramData, calls')
  /\ dgPts' = LiveDiagrams(dgPts, diagramData, calls')
  /\ UNCHANGED <<diagramData, newCount, selectedDiagram, cgmesVersion, diagramList, endpoint,
                 viewTransform, positionUpdateEvent>>
  /\ Interrupted

\* insertNewPoint rejected: the catch block (the rollback) and the finally.
InsertNewPointRejected(k) ==
  /\ k \in 1..Len(calls)
  /\ calls[k].op = "add"
  /\ calls' = RemoveAt(calls, k)
  /\ LET c == calls[k]
         list == FilterOut(objPts[c.obj], IriOf(c.pnt))
     IN  /\ diagramData' = c.dg
         /\ objPts' = LiveCells([objPts EXCEPT ![c.obj] = list], c.dg, calls')
         /\ pt' = LiveCells(Renumber(pt, list), c.dg, calls')
         /\ dgPts' = LiveDiagrams([dgPts EXCEPT ![c.dg] = FilterOut(@, IriOf(c.pnt))],
                                  c.dg, calls')
  /\ statusText' = "Error: insertNewPoint failed"
  /\ isLoading' = FALSE
  /\ UNCHANGED <<newCount, selectedDiagram, cgmesVersion, diagramList, endpoint,
                 interactionState,
                 viewTransform, positionUpdateEvent, remote>>
  /\ Interrupted

\* ---------------------------------------------------- deletePointFromLine
IsFirstOnly(pointIndex, list) == pointIndex = 0

\* if (pointIndex === 0 || pointIndex === object.points.length - 1)
IsFirstOrLast(pointIndex, list) ==
  pointIndex = 0 \/ pointIndex = Len(list) - 1

\* The synchronous part: the refusal, or the optimistic removal up to the
\* await of sparqlService.deletePoint.  Every PointModel has a parentObject.
DeletePointFromLine(point) ==
  /\ diagramData # 0
  /\ LET object == ParentOf(point)
         pointIndex == FindIndex(objPts[object], IriOf(point))
         list == SpliceDelete(objPts[object], pointIndex)
         diagramPointIndex == FindIndex(dgPts[diagramData], IriOf(point))
     IN  IF IsFirstOrLast(pointIndex, objPts[object])
         THEN /\ statusText' = "Cannot delete first or last point of a line or shape"
              /\ isLoading' = FALSE
              /\ UNCHANGED <<objPts, pt, dgPts, calls>>
         ELSE /\ Len(calls) < MaxPending
              /\ isLoading' = TRUE
              /\ statusText' = "Deleting point..."
              /\ objPts' = [objPts EXCEPT ![object] = list]
              /\ pt' = Renumber(pt, list)
              /\ dgPts' = IF diagramPointIndex >= 0
                          THEN [dgPts EXCEPT ![diagramData] =
                                  SpliceDelete(@, diagramPointIndex)]
                          ELSE dgPts
              /\ calls' = Issued(calls,
                            [NoCall EXCEPT !.op = "delete", !.dg = diagramData,
                                           !.id = NextCallId(calls),
                                           !.obj = object, !.pnt = point,
                                           !.upd = SequenceUpdates(pt', list),
                                           !.pre = Found(object)])
  /\ UNCHANGED <<diagramData, newCount, selectedDiagram, cgmesVersion, diagramList, endpoint,
                 interactionState, viewTransform, positionUpdateEvent, remote>>
  /\ Interrupted

\* deletePoint resolved: the rest of the try block and the finally.
DeletePointResolved(k) ==
  /\ k \in 1..Len(calls)
  /\ calls[k].op = "delete"
  /\ remote' = RemoteDelete(remote, calls[k])
  /\ statusText' = "Point deleted successfully"
  /\ interactionState' =
       [interactionState EXCEPT !.selectedPoints = @ \ {IriOf(calls[k].pnt)}]
  /\ isLoading' = FALSE
  /\ calls' = RemoveAt(calls, k)
  /\ UNCHANGED <<heap, selectedDiagram, cgmesVersion, diagramList, endpoint,
                 viewTransform,
                 positionUpdateEvent>>
  /\ Interrupted

\* deletePoint rejected: the catch block.  With a diagram selected it calls
\* loadDiagramLayout and awaits it (the finally runs when that load ends);
\* with none selected the finally runs at once.
DeletePointRejected(k) ==
  /\ k \in 1..Len(calls)
  /\ calls[k].op = "delete"
  /\ IF selectedDiagram # NoDiagram
     THEN /\ isLoading' = TRUE
          /\ statusText' = "Loading diagram layout data..."
          /\ viewTransform' = InitialView
          /\ interactionState' = ClearedSelection(interactionState)
          /\ calls' = [calls EXCEPT ![k] =
                         [@ EXCEPT !.op = "load", !.nested = TRUE]]
     ELSE /\ isLoading' = FALSE
          /\ statusText' = "Error: deletePoint failed"
          /\ calls' = RemoveAt(calls, k)
          /\ UNCHANGED <<viewTransform, interactionState>>
  /\ UNCHANGED <<heap, selectedDiagram, cgmesVersion, diagramList, endpoint,
                 positionUpdateEvent,
                 remote>>
  /\ InterruptedDrag
  /\ panOrigin' = IF selectedDiagram # NoDiagram THEN Null ELSE panOrigin

\* ------------------------------------------------------- structural edits
NextEdit ==
  \/ \E d \in DiagramIris \cup {NoDiagram} : SetSelectedDiagram(d)
  \/ \E d \in DiagramIris \cup {NoDiagram} : LoadDiagramLayout(d)
  \/ \E k \in DOMAIN calls : LayoutQueryResolved(k)
  \/ \E k \in DOMAIN calls : LayoutQueryRejected(k)
  \/ \E o \in {c \in CurrentObjects : c[2] \in EditObjects},
          p \in AddPositions, i \in InsertIndices :
       AddNewPointToLine(o, p, i)
  \/ \E k \in DOMAIN calls : InsertNewPointResolved(k)
  \/ \E k \in DOMAIN calls : InsertNewPointRejected(k)
  \/ \E p \in CurrentPointModels : DeletePointFromLine(p)
  \/ \E k \in DOMAIN calls : DeletePointResolved(k)
  \/ \E k \in DOMAIN calls : DeletePointRejected(k)
  \/ \E i \in IrisOf(CurrentPoints) \cap EditIris : TogglePointSelection(i)

SpecEdit == Init /\ [][NextEdit]_vars

\* ------------------------------------------ interaction state machine
\* Pointer positions handed to the start/update/end operations.
Positions == {<<0, 0>>, <<1, 0>>, <<4, 4>>}
SelectPositions == {<<0, 0>>, <<4, 4>>}
PanPositions == {<<0, 0>>}
\* The points clicked on.
DragIris == {1, 2}
Versions == {"2.4.15", "3.0"}

\* clearSelection
ClearSelection ==
  /\ interactionState' = ClearedSelection(interactionState)
  /\ Interrupted
  /\ UNCHANGED <<heap, ui, viewTransform, positionUpdateEvent, remote, calls>>

\* setCGMESVersion
SetCGMESVersion(version) ==
  /\ cgmesVersion' = version
  /\ interactionState' = ClearedSelection(interactionState)
  /\ Interrupted
  /\ UNCHANGED <<heap, isLoading, statusText, selectedDiagram, diagramList,
                 endpoint, viewTransform, positionUpdateEvent, remote, calls>>

SnapshotOfAll(points, selected) ==
  [i \in IrisOf(points) |->
     LET p == points[CHOOSE k \in 1..Len(points) :
                       /\ IriOf(points[k]) = i
                       /\ \A j \in (k + 1)..Len(points) : IriOf(points[j]) # i]
     IN  <<pt[p].x, pt[p].y>>]

\* startDragging's originalPositions: points.forEach(point => { if
\* (selectedPoints.has(point.iri)) originalPositions.set(point.iri, {x, y}) })
SnapshotOf(points, selected) ==
  [i \in IrisOf(points) \cap selected |->
     LET p == points[CHOOSE k \in 1..Len(points) :
                       /\ IriOf(points[k]) = i
                       /\ \A j \in (k + 1)..Len(points) : IriOf(points[j]) # i]
     IN  <<pt[p].x, pt[p].y>>]

\* startDragging
StartDragging(position) ==
  /\ dragCount < MaxDrags
  /\ IF diagramData = 0
     THEN /\ Interrupted
          /\ UNCHANGED interactionState
     ELSE /\ interactionState' =
               [interactionState EXCEPT
                  !.mode = "DRAGGING", !.dragStart = position, !.dragEnd = position,
                  !.originalPositions =
                     SnapshotOf(CurrentPoints, interactionState.selectedPoints)]
          /\ dragCount' = dragCount + 1
          /\ gesture' = "clean"
          /\ ptAtStart' = [p \in Range(CurrentPoints) |-> <<pt[p].x, pt[p].y>>]
          /\ panOrigin' = Null
          /\ UNCHANGED <<nPublished, nCompleted, zoomCount>>
  /\ UNCHANGED <<heap, ui, viewTransform, positionUpdateEvent, remote, calls>>

PlacedWithGlue(state, dx, dy) ==
  [p \in DOMAIN pt |->
     IF /\ p \in Range(CurrentPoints)
        /\ IriOf(p) \in state.selectedPoints
        /\ IriOf(p) \in DOMAIN state.originalPositions
     THEN [pt[p] EXCEPT !.x = state.originalPositions[IriOf(p)][1] + dx,
                        !.y = state.originalPositions[IriOf(p)][2] + dy]
     ELSE IF /\ p \in Range(CurrentPoints)
             /\ GluedTo(IriOf(p)) \cap state.selectedPoints # {}
          THEN [pt[p] EXCEPT !.x = BaseXY[IriOf(p)][1] + dx,
                             !.y = BaseXY[IriOf(p)][2] + dy]
          ELSE pt[p]]

PlacedAccumulated(state, dx, dy) ==
  [p \in DOMAIN pt |->
     IF /\ p \in Range(CurrentPoints)
        /\ IriOf(p) \in state.selectedPoints
        /\ IriOf(p) \in DOMAIN state.originalPositions
     THEN [pt[p] EXCEPT !.x = @ + dx, !.y = @ + dy]
     ELSE pt[p]]

\* The forEach of updateDragging (with the drag's delta) and of
\* revertDraggedPositions (with delta 0): every point of the diagram that is
\* selected and has an original position is put at that position plus delta.
PlacedFromOriginals(state, dx, dy) ==
  [p \in DOMAIN pt |->
     IF /\ p \in Range(CurrentPoints)
        /\ IriOf(p) \in state.selectedPoints
        /\ IriOf(p) \in DOMAIN state.originalPositions
     THEN [pt[p] EXCEPT !.x = state.originalPositions[IriOf(p)][1] + dx,
                        !.y = state.originalPositions[IriOf(p)][2] + dy]
     ELSE pt[p]]

\* updateDragging
UpdateDragging(position) ==
  /\ IF \/ diagramData = 0
        \/ interactionState.mode # "DRAGGING"
        \/ interactionState.dragStart = Null
     THEN UNCHANGED <<pt, interactionState>>
     ELSE /\ pt' = PlacedFromOriginals(interactionState,
                     position[1] - interactionState.dragStart[1],
                     position[2] - interactionState.dragStart[2])
          /\ interactionState' = [interactionState EXCEPT !.dragEnd = position]
  /\ UNCHANGED <<diagramData, newCount, dgPts, objPts, ui, viewTransform,
                 positionUpdateEvent, remote, calls, hist>>

\* endDragging's reset of the interaction state.
EndedDrag(state) ==
  [state EXCEPT !.mode = "NONE", !.dragStart = Null, !.dragEnd = Null]

\* const isSignificant = Math.abs(dx) > dragThreshold || Math.abs(dy) > dragThreshold
IsSignificant(dx, dy) == Abs(dx) > DragThreshold \/ Abs(dy) > DragThreshold

DragStartKnown(state) == state.dragStart # Null

\* endDragging goes on only if (not its early return)
\* currentState.mode === DRAGGING and currentState.dragStart is set.
DragInProgress(state) == state.mode = "DRAGGING" /\ state.dragStart # Null

\* endDragging, revertDraggedPositions included
EndDragging(position) ==
  /\ IF ~DragInProgress(interactionState)
     THEN UNCHANGED <<pt, interactionState, positionUpdateEvent, nPublished>>
     ELSE LET dx == position[1] - interactionState.dragStart[1]
              dy == position[2] - interactionState.dragStart[2]
          IN  /\ interactionState' = EndedDrag(interactionState)
              /\ IF ~IsSignificant(dx, dy)
                 THEN /\ pt' = IF diagramData = 0 THEN pt
                               ELSE PlacedFromOriginals(interactionState', 0, 0)
                      /\ UNCHANGED <<positionUpdateEvent, nPublished>>
                 ELSE /\ positionUpdateEvent' =
                           [points |-> interactionState.selectedPoints,
                            dx |-> dx, dy |-> dy]
                      /\ nPublished' = 1 - nPublished
                      /\ UNCHANGED pt
  /\ gesture' = "none"
  /\ ptAtStart' = NoMap
  /\ UNCHANGED <<diagramData, newCount, dgPts, objPts, ui, viewTransform,
                 remote, calls, dragCount, nCompleted, panOrigin, zoomCount>>

\* startSelecting
StartSelecting(position) ==
  /\ interactionState' =
       [interactionState EXCEPT
          !.mode = "SELECTING", !.dragStart = position, !.dragEnd = position]
  /\ InterruptedDrag
  /\ panOrigin' = Null
  /\ UNCHANGED <<heap, ui, viewTransform, positionUpdateEvent, remote, calls>>

\* updateSelecting
UpdateSelecting(position) ==
  /\ interactionState' = [interactionState EXCEPT !.dragEnd = position]
  /\ Interrupted
  /\ UNCHANGED <<heap, ui, viewTransform, positionUpdateEvent, remote, calls>>

\* completeSelecting
CompleteSelecting ==
  /\ IF \/ diagramData = 0
        \/ interactionState.mode # "SELECTING"
        \/ interactionState.dragStart = Null
        \/ interactionState.dragEnd = Null
     THEN UNCHANGED interactionState
     ELSE LET startX == Min(interactionState.dragStart[1], interactionState.dragEnd[1])
              startY == Min(interactionState.dragStart[2], interactionState.dragEnd[2])
              endX == Max(interactionState.dragStart[1], interactionState.dragEnd[1])
              endY == Max(interactionState.dragStart[2], interactionState.dragEnd[2])
              inside == {IriOf(p) : p \in {q \in Range(CurrentPoints) :
                           /\ pt[q].x >= startX /\ pt[q].x <= endX
                           /\ pt[q].y >= startY /\ pt[q].y <= endY}}
          IN  IF Abs(endX - startX) <= 3 \/ Abs(endY - startY) <= 3
              THEN interactionState' = EndedDrag(interactionState)
              ELSE interactionState' =
                     [EndedDrag(interactionState) EXCEPT
                        !.selectedPoints = @ \cup inside]
  /\ gesture' = IF gesture = "none" THEN "none" ELSE "dirty"
  /\ nCompleted' = 1 - nCompleted
  /\ UNCHANGED <<nPublished, dragCount, ptAtStart, panOrigin, zoomCount>>
  /\ UNCHANGED <<heap, ui, viewTransform, positionUpdateEvent, remote, calls>>

\* startPanning
StartPanning(position) ==
  /\ interactionState' =
       [interactionState EXCEPT !.mode = "PANNING", !.panStart = position]
  /\ InterruptedDrag
  /\ panOrigin' = [p |-> position, x |-> viewTransform.offsetX,
                   y |-> viewTransform.offsetY]
  /\ UNCHANGED <<heap, ui, viewTransform, positionUpdateEvent, remote, calls>>

\* endPanning
EndPanning ==
  /\ interactionState' =
       [interactionState EXCEPT !.mode = "NONE", !.panStart = Null]
  /\ InterruptedDrag
  /\ panOrigin' = Null
  /\ UNCHANGED <<heap, ui, viewTransform, positionUpdateEvent, remote, calls>>

NextDrag ==
  \/ \E i \in IrisOf(CurrentPoints) \cap DragIris : TogglePointSelection(i)
  \/ \E p \in Positions : StartDragging(p)
  \/ \E p \in Positions : UpdateDragging(p)
  \/ \E p \in Positions : EndDragging(p)
  \/ \E p \in SelectPositions : StartSelecting(p)
  \/ \E p \in SelectPositions : UpdateSelecting(p)
  \/ CompleteSelecting
  \/ \E p \in PanPositions : StartPanning(p)
  \/ EndPanning

\* The state once the first layout is loaded (selectedDiagram set,
\* loadDiagramLayout called, its query resolved).
InitLoaded ==
  /\ remote = InitialRemote
  /\ diagramData = 1
  /\ newCount = 0
  /\ dgPts = (1 :> LoadedFlat(1))
  /\ objPts = LoadedObjects(1)
  /\ pt = LoadedPoints(1)
  /\ interactionState = InitialInteractionState
  /\ viewTransform = InitialView
  /\ positionUpdateEvent = Null
  /\ isLoading = FALSE
  /\ statusText = "Loaded diagram"
  /\ selectedDiagram = 1
  /\ cgmesVersion = "3.0"
  /\ diagramList = <<>>
  /\ endpoint = ""
  /\ calls = <<>>
  /\ nPublished = 0
  /\ dragCount = 0
  /\ gesture = "none"
  /\ ptAtStart = NoMap
  /\ nCompleted = 0
  /\ panOrigin = Null
  /\ zoomCount = 0

SpecDrag == InitLoaded /\ [][NextDrag]_vars

\* ------------------------------------------------ reloads and resets
NextReset ==
  \/ \E e \in Endpoints : LoadDiagramProfiles(e)
  \/ \E k \in DOMAIN calls, found \in DiagramLists : ProfilesQueryResolved(k, found)
  \/ \E k \in DOMAIN calls : ProfilesQueryRejected(k)
  \/ \E d \in DiagramIris \cup {NoDiagram} : SetSelectedDiagram(d)
  \/ \E d \in DiagramIris \cup {NoDiagram} : LoadDiagramLayout(d)
  \/ \E k \in DOMAIN calls : LayoutQueryResolved(k)
  \/ \E k \in DOMAIN calls : LayoutQueryRejected(k)
  \/ \E i \in IrisOf(CurrentPoints) \cap DragIris : TogglePointSelection(i)
  \/ \E v \in Versions : SetCGMESVersion(v)
  \/ ClearSelection
  \/ \E p \in PanPositions : StartDragging(p)
  \/ \E p \in PanPositions : EndDragging(p)
  \/ \E p \in PanPositions : StartSelecting(p)
  \/ CompleteSelecting
  \/ \E p \in PanPositions : StartPanning(p)
  \/ EndPanning

SpecReset == Init /\ [][NextReset]_vars

\* ------------------------------------------------------- panning and zoom
\* Pointer positions of the pan gestures and the wheel events.
ViewPositions == {<<0, 0>>, <<3, 1>>}
ZoomCenters == {<<0, 0>>, <<100, 100>>}
WheelDeltas == {-1, 1}

\* The views within the bounds.
ViewInBounds(view) ==
  /\ QLeq(QAbs(view.offsetX), Q(MaxOffset))
  /\ QLeq(QAbs(view.offsetY), Q(MaxOffset))

PannedHorizontally(view, dx, dy) == [view EXCEPT !.offsetX = QAdd(@, Q(dx))]

\* updatePanning's update of the view transform.
Panned(view, dx, dy) ==
  [view EXCEPT !.offsetX = QAdd(@, Q(dx)), !.offsetY = QAdd(@, Q(dy))]

\* updatePanning
UpdatePanning(position) ==
  /\ IF \/ interactionState.mode # "PANNING"
        \/ interactionState.panStart = Null
     THEN UNCHANGED <<viewTransform, interactionState>>
     ELSE /\ viewTransform' =
               Panned(viewTransform, position[1] - interactionState.panStart[1],
                                     position[2] - interactionState.panStart[2])
          /\ ViewInBounds(viewTransform')
          /\ interactionState' = [interactionState EXCEPT !.panStart = position]
  /\ Interrupted
  /\ UNCHANGED <<heap, ui, positionUpdateEvent, remote, calls>>

\* const zoomFactor = delta < 0 ? zoomFactor : 1 / zoomFactor
FactorOf(delta) == IF delta < 0 THEN ZoomFactor ELSE QDiv(Q(1), ZoomFactor)

ZoomedAboutOrigin(view, center, delta) ==
  [scale |-> QMul(view.scale, FactorOf(delta)),
   offsetX |-> QMul(view.offsetX, FactorOf(delta)),
   offsetY |-> QMul(view.offsetY, FactorOf(delta))]

\* zoom's new view transform.
Zoomed(view, center, delta) ==
  [scale |-> QMul(view.scale, FactorOf(delta)),
   offsetX |-> QSub(Q(center[1]),
                    QMul(QSub(Q(center[1]), view.offsetX), FactorOf(delta))),
   offsetY |-> QSub(Q(center[2]),
                    QMul(QSub(Q(center[2]), view.offsetY), FactorOf(delta)))]

\* zoom
Zoom(center, delta) ==
  /\ zoomCount < MaxZooms
  /\ viewTransform' = Zoomed(viewTransform, center, delta)
  /\ ViewInBounds(viewTransform')
  /\ zoomCount' = zoomCount + 1
  /\ gesture' = IF gesture = "none" THEN "none" ELSE "dirty"
  /\ panOrigin' = Null
  /\ UNCHANGED <<nPublished, dragCount, ptAtStart, nCompleted>>
  /\ UNCHANGED <<heap, ui, interactionState, positionUpdateEvent, remote, calls>>

NextView ==
  \/ \E i \in IrisOf(CurrentPoints) \cap DragIris : TogglePointSelection(i)
  \/ \E p \in ViewPositions : StartPanning(p)
  \/ \E p \in ViewPositions : UpdatePanning(p)
  \/ EndPanning
  \/ \E c \in ZoomCenters, d \in WheelDeltas : Zoom(c, d)
  \/ \E p \in PanPositions : StartDragging(p)
  \/ \E p \in PanPositions : EndDragging(p)

SpecView == InitLoaded /\ [][NextView]_vars

\* ------------------------------------------- a reload during an insert
\* The state in which addNewPointToLine(object 1, (1,1), insertIndex) awaits
\* insertNewPoint on the first layout loaded and loadDiagramLayout, called
\* after it, awaits its layout query.
InitOverlap ==
  \E insertIndex \in InsertIndices :
    LET object == <<1, 1>>
        position == <<1, 1>>
        newPoint == <<1, 1, NewIri(1)>>
        list == SpliceInsert(LoadedObjects(1)[object], insertIndex, newPoint)
        created == LoadedPoints(1) @@
                     (newPoint :> [x |-> position[1], y |-> position[2],
                                   sequenceNumber |-> insertIndex])
    IN  /\ remote = InitialRemote
        /\ diagramData = 1
        /\ newCount = 1
        /\ objPts = [LoadedObjects(1) EXCEPT ![object] = list]
        /\ pt = Renumber(created, list)
        /\ dgPts = (1 :> Append(LoadedFlat(1), newPoint))
        /\ calls = <<[NoCall EXCEPT
                        !.op = "add", !.dg = 1, !.id = 1,
                        !.obj = object, !.pnt = newPoint,
                        !.idx = insertIndex, !.pos = position,
                        !.upd = SequenceUpdates(pt, list),
                        !.pre = [list |-> LoadedObjects(1)[object],
                                 seq |-> [p \in Range(LoadedObjects(1)[object]) |->
                                            LoadedPoints(1)[p].sequenceNumber],
                                 flat |-> LoadedFlat(1)]],
                     [NoCall EXCEPT !.op = "load", !.id = 2]>>
        /\ interactionState = InitialInteractionState
        /\ viewTransform = InitialView
        /\ positionUpdateEvent = Null
        /\ isLoading = TRUE
        /\ statusText = "Loading diagram layout data..."
        /\ selectedDiagram = 1
        /\ cgmesVersion = "3.0"
        /\ diagramList = <<>>
        /\ endpoint = ""
        /\ nPublished = 0
        /\ dragCount = 0
        /\ gesture = "none"
        /\ ptAtStart = NoMap
        /\ nCompleted = 0
        /\ panOrigin = Null
        /\ zoomCount = 0

NextOverlap ==
  \/ \E d \in DiagramIris \cup {NoDiagram} : LoadDiagramLayout(d)
  \/ \E k \in DOMAIN calls : LayoutQueryResolved(k)
  \/ \E k \in DOMAIN calls : LayoutQueryRejected(k)
  \/ \E k \in DOMAIN calls : InsertNewPointResolved(k)
  \/ \E k \in DOMAIN calls : InsertNewPointRejected(k)
  \/ \E p \in CurrentPointModels : DeletePointFromLine(p)
  \/ \E k \in DOMAIN calls : DeletePointResolved(k)
  \/ \E i \in IrisOf(CurrentPoints) \cap EditIris : TogglePointSelection(i)

SpecOverlap == InitOverlap /\ [][NextOverlap]_vars

\* ================================================================ claims
\* The points an addNewPointToLine call has inserted and not yet seen
\* confirmed or rolled back.
PendingInserts == {calls[k].pnt : k \in {j \in 1..Len(calls) : calls[j].op = "add"}}

\* C1: in no step is the point that is first, or the point that is last, in
\* an object's list taken out of that list (the rollback of a point's own
\* unconfirmed insert aside).
C1_FirstAndLastStay ==
  [][\A o \in DOMAIN objPts \cap DOMAIN objPts' :
       \A p \in {objPts[o][k] : k \in {1, Len(objPts[o])} \cap DOMAIN objPts[o]} :
         p \notin PendingInserts => p \in Range(objPts'[o])]_vars

\* C2: deletePointFromLine on a point that is first or last in its parent's
\* list changes neither that list, nor the flattened list, nor a sequence
\* number, nor the selection; it issues no remote call and reports the
\* refusal as status text.
C2_ProtectedDeleteRefused ==
  [][\A p \in CurrentPointModels :
       (/\ DeletePointFromLine(p)
        /\ Len(objPts[ParentOf(p)]) >= 1
        /\ \/ objPts[ParentOf(p)][1] = p
           \/ objPts[ParentOf(p)][Len(objPts[ParentOf(p)])] = p)
       => /\ objPts' = objPts
          /\ dgPts' = dgPts
          /\ pt' = pt
          /\ interactionState'.selectedPoints = interactionState.selectedPoints
          /\ calls' = calls
          /\ statusText' = "Cannot delete first or last point of a line or shape"]_vars

\* C2 witness: a refusal has happened on a loaded diagram.
C2_Witness ==
  /\ statusText = "Cannot delete first or last point of a line or shape"
  /\ \E o \in CurrentObjects : Len(objPts[o]) >= 2

\* C3: every point's sequenceNumber is its index in its object's list.
C3_SequenceNumbersAreIndices ==
  \A o \in DOMAIN objPts :
    \A k \in 1..Len(objPts[o]) : pt[objPts[o][k]].sequenceNumber = k - 1

\* C3 witness: an insert has been rolled back after a delete went through.
C3_Witness ==
  /\ statusText = "Error: insertNewPoint failed"
  /\ calls = <<>>
  /\ \E o \in CurrentObjects : Len(objPts[o]) = 2

\* C4: the flattened list of the current diagram holds exactly the iris
\* held by the lists of its objects.
C4_FlattenedInSync ==
  diagramData # 0 =>
    IrisOf(dgPts[diagramData]) = UNION {IrisOf(objPts[o]) : o \in CurrentObjects}

\* The distance test of the claims on insignificant drags, on the pointer
\* positions themselves.
WithinThreshold(p0, pe) ==
  Abs(pe[1] - p0[1]) <= DragThreshold /\ Abs(pe[2] - p0[2]) <= DragThreshold

\* C5: an endDragging within the threshold of the drag's start, reached from
\* startDragging through updateDragging and togglePointSelection calls only,
\* leaves every diagram point at its coordinates of drag start and publishes
\* nothing.
C5_SmallDragRestoresAll ==
  [][\A pe \in Positions :
       (/\ EndDragging(pe)
        /\ gesture = "clean"
        /\ DragInProgress(interactionState)
        /\ WithinThreshold(interactionState.dragStart, pe))
       => /\ \A p \in Range(CurrentPoints) : <<pt'[p].x, pt'[p].y>> = ptAtStart[p]
          /\ nPublished' = nPublished
          /\ positionUpdateEvent' = positionUpdateEvent]_vars

\* C6: a position update is published only by an endDragging step taken in
\* mode DRAGGING, and only if a startDragging has happened since the last
\* endDragging call.
C6_PublishedOnlyByEndDragging ==
  [][(nPublished' # nPublished \/ positionUpdateEvent' # positionUpdateEvent)
       => /\ interactionState.mode = "DRAGGING"
          /\ gesture # "none"
          /\ \E pe \in Positions : EndDragging(pe)
          /\ \A pe \in Positions : ~StartDragging(pe) /\ ~UpdateDragging(pe)]_vars

\* C6 witness: a drag has been committed and its update published.
C6_Witness ==
  /\ positionUpdateEvent # Null
  /\ positionUpdateEvent.points = {1}
  /\ nPublished = 1
  /\ gesture = "none"
  /\ interactionState.mode = "NONE"

\* C7: every step that changes the mode starts in NONE or ends in NONE.
C7_ModeChangesThroughNone ==
  [][interactionState'.mode # interactionState.mode
       => interactionState.mode = "NONE" \/ interactionState'.mode = "NONE"]_vars

\* C8: whenever the mode is not DRAGGING, originalPositions is empty.
C8_SnapshotEmptyUnlessDragging ==
  interactionState.mode # "DRAGGING" => DOMAIN interactionState.originalPositions = {}

\* C9: startDragging(position) on a loaded diagram sets mode DRAGGING and
\* dragStart = dragEnd = position, makes originalPositions the map from the
\* selected iris present in the diagram to their points' current (x, y), and
\* changes neither the selection nor a coordinate.
C9_StartDraggingSnapshot ==
  [][\A position \in Positions :
       (StartDragging(position) /\ diagramData # 0)
       => /\ interactionState'.mode = "DRAGGING"
          /\ interactionState'.dragStart = position
          /\ interactionState'.dragEnd = position
          /\ DOMAIN interactionState'.originalPositions =
               interactionState.selectedPoints \cap IrisOf(CurrentPoints)
          /\ \A p \in Range(CurrentPoints) :
               IriOf(p) \in interactionState.selectedPoints
               => interactionState'.originalPositions[IriOf(p)] = <<pt[p].x, pt[p].y>>
          /\ interactionState'.selectedPoints = interactionState.selectedPoints
          /\ pt' = pt]_vars

\* C9 witness: a drag has started with one point selected and the others
\* not.
C9_Witness ==
  /\ interactionState.mode = "DRAGGING"
  /\ interactionState.dragStart = <<1, 0>>
  /\ interactionState.dragEnd = <<1, 0>>
  /\ interactionState.selectedPoints = {2}
  /\ interactionState.originalPositions = (2 :> BaseXY[2])
  /\ gesture = "clean"

\* C10: a setCGMESVersion step, a loadDiagramLayout step for a chosen
\* diagram, and the step that completes the load all end with mode NONE and
\* an empty selection.
C10_ResetOnVersionAndReload ==
  [][(\/ \E v \in Versions : SetCGMESVersion(v)
      \/ \E d \in DiagramIris : LoadDiagramLayout(d)
      \/ \E k \in DOMAIN calls : LayoutQueryResolved(k))
       => /\ interactionState'.mode = "NONE"
          /\ interactionState'.selectedPoints = {}]_vars

\* The lists and sequence numbers are as the call c left them when it went
\* to wait for the remote store: no other call has changed them since.
AsLeftByAdd(c) ==
  /\ diagramData = c.dg
  /\ objPts[c.obj] = SpliceInsert(c.pre.list, c.idx, c.pnt)
  /\ SequenceUpdates(pt, objPts[c.obj]) = c.upd
  /\ dgPts[c.dg] = Append(c.pre.flat, c.pnt)

\* C11: when insertNewPoint fails, the object's list, the sequence numbers,
\* the flattened list are what addNewPointToLine found, neither the call nor
\* its rollback has touched the selection, the status text is an error and
\* isLoading is false.
C11_FailedInsertUndone ==
  [][/\ \A k \in 1..Len(calls) :
          (InsertNewPointRejected(k) /\ AsLeftByAdd(calls[k]))
          => /\ objPts'[calls[k].obj] = calls[k].pre.list
             /\ \A p \in Range(calls[k].pre.list) :
                  pt'[p].sequenceNumber = calls[k].pre.seq[p]
             /\ dgPts'[calls[k].dg] = calls[k].pre.flat
             /\ diagramData' = calls[k].dg
             /\ interactionState' = interactionState
             /\ statusText' = "Error: insertNewPoint failed"
             /\ isLoading' = FALSE
     /\ \A o \in CurrentObjects, p \in AddPositions, i \in InsertIndices :
          AddNewPointToLine(o, p, i) => interactionState' = interactionState]_vars

\* C11 witness: an insert into the full list was rolled back with a point
\* selected.
C11_Witness ==
  /\ statusText = "Error: insertNewPoint failed"
  /\ isLoading = FALSE
  /\ newCount = 1
  /\ interactionState.selectedPoints = {2}
  /\ \E o \in CurrentObjects : IrisOf(objPts[o]) = {1, 2, 3}

\* The step that ends the deletePointFromLine call k whose deletePoint
\* failed: its catch block when it loads nothing, else the end of the load
\* it awaits.
FailedDeleteEnds(k) ==
  \/ /\ DeletePointRejected(k)
     /\ Len(calls') < Len(calls)
  \/ /\ k \in 1..Len(calls)
     /\ calls[k].nested
     /\ LayoutQueryResolved(k) \/ LayoutQueryRejected(k)

\* C12: when a deletePointFromLine whose deletePoint failed ends, the point
\* it removed is again in the list of its object and in the flattened list
\* of the current diagram.
C12_FailedDeleteReconciled ==
  [][\A k \in 1..Len(calls) :
       (/\ FailedDeleteEnds(k)
        /\ IriOf(calls[k].pnt) \in IrisOf(calls[k].pre.list))
       => /\ IriOf(calls[k].pnt) \in IrisOf(CurrentPoints')
          /\ \E o \in DOMAIN objPts' :
               /\ o[1] = diagramData'
               /\ o[2] = calls[k].obj[2]
               /\ IriOf(calls[k].pnt) \in IrisOf(objPts'[o])]_vars

\* C13: addNewPointToLine(object, position, i) with 0 <= i <= n makes the
\* object's list [q0..q(i-1), new, qi..q(n-1)], the new point at position
\* with sequence number i, every other point of the list numbered by its new
\* index and where it was, and the flattened list its former contents
\* followed by the new point; the success of insertNewPoint stores the new
\* point with sequence number i and, while the diagram of the call is still
\* the displayed one, leaves the lists and the points as they are.
C13_InsertAtIndex ==
  [][/\ \A object \in CurrentObjects, position \in AddPositions, i \in InsertIndices :
          (/\ AddNewPointToLine(object, position, i)
           /\ 0 <= i /\ i <= Len(objPts[object]))
          => LET old == objPts[object]
                 new == objPts'[object][i + 1]
             IN  /\ Len(objPts'[object]) = Len(old) + 1
                 /\ \A j \in 1..i : objPts'[object][j] = old[j]
                 /\ \A j \in (i + 1)..Len(old) : objPts'[object][j + 1] = old[j]
                 /\ new \notin DOMAIN pt
                 /\ ParentOf(new) = object
                 /\ IriOf(new) \notin IrisOf(dgPts[diagramData])
                 /\ pt'[new] = [x |-> position[1], y |-> position[2],
                                sequenceNumber |-> i]
                 /\ \A j \in 1..Len(objPts'[object]) :
                      pt'[objPts'[object][j]].sequenceNumber = j - 1
                 /\ \A q \in Range(old) : pt'[q].x = pt[q].x /\ pt'[q].y = pt[q].y
                 /\ dgPts'[diagramData] = dgPts[diagramData] \o <<new>>
     /\ \A k \in 1..Len(calls) :
          (/\ InsertNewPointResolved(k)
           /\ 0 <= calls[k].idx /\ calls[k].idx <= Len(calls[k].pre.list))
          => /\ remote'[IriOf(calls[k].pnt)] =
                  [obj |-> calls[k].obj[2], seq |-> calls[k].idx,
                   x |-> calls[k].pos[1], y |-> calls[k].pos[2]]
             /\ calls[k].dg = diagramData
                => /\ objPts'[calls[k].obj] = objPts[calls[k].obj]
                   /\ dgPts'[calls[k].dg] = dgPts[calls[k].dg]
                   /\ \A q \in Range(objPts[calls[k].obj]) : pt'[q] = pt[q]]_vars

\* C13 witness: the insert at index 1 of a list of three has succeeded.
C13_Witness ==
  /\ statusText = "New point added"
  /\ diagramData # 0
  /\ \E o \in CurrentObjects :
       /\ Len(objPts[o]) = 4
       /\ [j \in 1..4 |-> IriOf(objPts[o][j])] = <<1, NewIri(1), 2, 3>>
       /\ pt[objPts[o][2]] = [x |-> 1, y |-> 1, sequenceNumber |-> 1]
       /\ [j \in 1..5 |-> IriOf(dgPts[diagramData][j])] = <<1, 2, 3, 4, NewIri(1)>>
  /\ remote[NewIri(1)].seq = 1

\* C14: deletePointFromLine on a point at an interior index of its object's
\* list takes exactly that point out of the list and out of the flattened
\* list, the others keeping their order, and leaves the selection alone; the
\* success of deletePoint leaves the lists as they are and takes the deleted
\* iri, and no other, out of the selection.
C14_InteriorDelete ==
  [][/\ \A point \in CurrentPointModels :
          LET old == objPts[ParentOf(point)]
              flat == dgPts[diagramData]
          IN  (/\ DeletePointFromLine(point)
               /\ \E j \in 2..(Len(old) - 1) : old[j] = point)
              => /\ objPts'[ParentOf(point)] = SelectSeq(old, LAMBDA q : q # point)
                 /\ Len(objPts'[ParentOf(point)]) = Len(old) - 1
                 /\ dgPts'[diagramData] = SelectSeq(flat, LAMBDA q : q # point)
                 /\ Len(dgPts'[diagramData]) = Len(flat) - 1
                 /\ interactionState' = interactionState
                 /\ Len(calls') = Len(calls) + 1
     /\ \A k \in 1..Len(calls) :
          DeletePointResolved(k)
          => /\ objPts' = objPts
             /\ dgPts' = dgPts
             /\ pt' = pt
             /\ interactionState'.selectedPoints =
                  interactionState.selectedPoints \ {IriOf(calls[k].pnt)}]_vars

\* C14 witness: the interior point of a list of three has been deleted while
\* it and another point were selected.
C14_Witness ==
  /\ statusText = "Point deleted successfully"
  /\ diagramData # 0
  /\ interactionState.selectedPoints = {1}
  /\ remote[2].obj = 0
  /\ newCount = 0
  /\ \E o \in CurrentObjects : [j \in DOMAIN objPts[o] |-> IriOf(objPts[o][j])] = <<1, 3>>
  /\ [j \in DOMAIN dgPts[diagramData] |-> IriOf(dgPts[diagramData][j])] = <<1, 3, 4>>

\* The selection rectangle of a state: it has the corners dragStart and
\* dragEnd.
HasRectangle(state) == state.dragStart # Null /\ state.dragEnd # Null
RectWidth(state) == Abs(state.dragEnd[1] - state.dragStart[1])
RectHeight(state) == Abs(state.dragEnd[2] - state.dragStart[2])

\* C15: completeSelecting in mode SELECTING with a rectangle of width or
\* height at most 3 changes neither the selection nor a coordinate, and
\* ends in mode NONE with dragStart and dragEnd cleared.
C15_SmallRectangleCancels ==
  [][(/\ CompleteSelecting
      /\ interactionState.mode = "SELECTING"
      /\ HasRectangle(interactionState)
      /\ RectWidth(interactionState) <= 3 \/ RectHeight(interactionState) <= 3)
     => /\ interactionState'.selectedPoints = interactionState.selectedPoints
        /\ pt' = pt
        /\ interactionState'.mode = "NONE"
        /\ interactionState'.dragStart = Null
        /\ interactionState'.dragEnd = Null]_vars

\* v lies between a and b, whichever of them is the smaller, bounds included.
Between(v, a, b) == (a <= v /\ v <= b) \/ (b <= v /\ v <= a)

\* The iris of the diagram's points inside the rectangle of a state.
InRectangle(state) ==
  {IriOf(p) : p \in {q \in Range(CurrentPoints) :
     /\ Between(pt[q].x, state.dragStart[1], state.dragEnd[1])
     /\ Between(pt[q].y, state.dragStart[2], state.dragEnd[2])}}

\* C16: completeSelecting in mode SELECTING with a rectangle wider and
\* taller than 3 makes the selection the former selection together with the
\* iris of the diagram's points inside the rectangle, bounds included.
C16_RectangleAddsInside ==
  [][(/\ CompleteSelecting
      /\ interactionState.mode = "SELECTING"
      /\ HasRectangle(interactionState)
      /\ RectWidth(interactionState) > 3
      /\ RectHeight(interactionState) > 3)
     => interactionState'.selectedPoints =
          interactionState.selectedPoints \cup InRectangle(interactionState)]_vars

\* C16 witness: a rectangle from (0,0) to (4,4) has selected the points 1
\* and 3 and not the point 2, dragged out of it before.
C16_Witness ==
  /\ nCompleted = 1
  /\ interactionState.mode = "NONE"
  /\ interactionState.selectedPoints = {1, 3}
  /\ \E p \in Range(CurrentPoints) : IriOf(p) = 2 /\ pt[p].x = 6 /\ pt[p].y = 4

\* C17: in a drag whose selection is the one it started with, after
\* updateDragging(position) every selected point is where it was at drag
\* start plus (position - dragStart), which is its snapshot plus that
\* delta, every other point is where it was, and dragEnd = position.
C17_PreviewFromSnapshot ==
  [][\A position \in Positions :
       (/\ UpdateDragging(position)
        /\ DragInProgress(interactionState)
        /\ gesture # "none"
        /\ interactionState.selectedPoints = DOMAIN interactionState.originalPositions)
       => LET dx == position[1] - interactionState.dragStart[1]
              dy == position[2] - interactionState.dragStart[2]
          IN  /\ \A p \in Range(CurrentPoints) :
                   IF IriOf(p) \in interactionState.selectedPoints
                   THEN /\ pt'[p].x = ptAtStart[p][1] + dx
                        /\ pt'[p].y = ptAtStart[p][2] + dy
                        /\ interactionState.originalPositions[IriOf(p)] = ptAtStart[p]
                   ELSE pt'[p] = pt[p]
              /\ \A p, q \in Range(CurrentPoints) :
                   (/\ IriOf(p) \in interactionState.selectedPoints
                    /\ IriOf(q) \in interactionState.selectedPoints)
                   => /\ pt'[p].x - pt'[q].x = ptAtStart[p][1] - ptAtStart[q][1]
                      /\ pt'[p].y - pt'[q].y = ptAtStart[p][2] - ptAtStart[q][2]
              /\ interactionState'.dragEnd = position
              /\ interactionState'.dragStart = interactionState.dragStart]_vars

\* C17 witness: two selected points dragged from (1,0) to (4,4).
C17_Witness ==
  /\ interactionState.mode = "DRAGGING"
  /\ gesture = "clean"
  /\ interactionState.selectedPoints = {1, 2}
  /\ interactionState.dragStart = <<1, 0>>
  /\ interactionState.dragEnd = <<4, 4>>
  /\ \E p \in Range(CurrentPoints) : IriOf(p) = 1 /\ pt[p].x = 3 /\ pt[p].y = 4
  /\ \E p \in Range(CurrentPoints) : IriOf(p) = 2 /\ pt[p].x = 5 /\ pt[p].y = 4

C19_PublishedDeltaIsDragEnd ==
  [][\A position \in Positions :
       (/\ EndDragging(position)
        /\ DragInProgress(interactionState)
        /\ nPublished' # nPublished)
       => /\ positionUpdateEvent'.dx =
               interactionState.dragEnd[1] - interactionState.dragStart[1]
          /\ positionUpdateEvent'.dy =
               interactionState.dragEnd[2] - interactionState.dragStart[2]
          /\ positionUpdateEvent'.points = interactionState.selectedPoints]_vars

\* C20: loadDiagramLayout with an empty diagram iri and loadDiagramProfiles
\* with an invalid endpoint change nothing but the status text, which shows
\* the error: isLoading, the view, the interaction state, the diagram, the
\* diagram list and the endpoint are as before and no query is issued.
C20_RejectedBeforeAnyChange ==
  [][/\ LoadDiagramLayout(NoDiagram)
          => /\ statusText' = "Error: Please select a diagram"
             /\ UNCHANGED <<isLoading, viewTransform, interactionState, heap,
                            diagramList, endpoint, selectedDiagram, calls, remote>>
     /\ \A e \in Endpoints :
          (LoadDiagramProfiles(e) /\ ~IsValidEndpoint(e))
          => /\ statusText' = "Error: Please enter a valid SPARQL endpoint URL"
             /\ UNCHANGED <<isLoading, viewTransform, interactionState, heap,
                            diagramList, endpoint, selectedDiagram, calls, remote>>]_vars

\* C20 witness: a load without a diagram iri was refused while a layout
\* query was awaited, with a diagram loaded, diagrams listed and a point
\* selected.
C20_Witness ==
  /\ statusText = "Error: Please select a diagram"
  /\ isLoading = TRUE
  /\ Len(calls) = 1
  /\ diagramData # 0
  /\ diagramList # <<>>
  /\ interactionState.selectedPoints # {}

\* The remote persistence calls among the calls awaited.
PersistenceCalls(cs) == {k \in 1..Len(cs) : cs[k].op \in {"add", "delete"}}

\* C21: addNewPointToLine and an accepted deletePointFromLine change the
\* local lists in the step that issues their one remote call, and the store
\* changes only later, when that call resolves; a refused
\* deletePointFromLine issues nothing; the store changes only in the step
\* that resolves a persistence call, which is then no longer awaited.
C21_MutationThenOneCall ==
  [][/\ \A o \in CurrentObjects, p \in AddPositions, i \in InsertIndices :
          AddNewPointToLine(o, p, i)
          => /\ Len(calls') = Len(calls) + 1
             /\ SubSeq(calls', 1, Len(calls)) = calls
             /\ calls'[Len(calls')].op = "add"
             /\ calls'[Len(calls')].pnt \in Range(objPts'[o])
             /\ calls'[Len(calls')].pnt \in Range(dgPts'[diagramData])
             /\ calls'[Len(calls')].pnt \notin Range(objPts[o])
             /\ remote' = remote
             /\ remote[IriOf(calls'[Len(calls')].pnt)].obj = 0
     /\ \A point \in CurrentPointModels :
          DeletePointFromLine(point)
          => IF statusText' = "Deleting point..."
             THEN /\ Len(calls') = Len(calls) + 1
                  /\ SubSeq(calls', 1, Len(calls)) = calls
                  /\ calls'[Len(calls')].op = "delete"
                  /\ calls'[Len(calls')].pnt = point
                  /\ Len(objPts'[ParentOf(point)]) = Len(objPts[ParentOf(point)]) - 1
                  /\ point \notin Range(objPts'[ParentOf(point)])
                  /\ remote' = remote
             ELSE /\ calls' = calls
                  /\ remote' = remote
                  /\ UNCHANGED heap
     /\ Cardinality(PersistenceCalls(calls')) > Cardinality(PersistenceCalls(calls))
          => \/ \E o \in CurrentObjects, p \in AddPositions, i \in InsertIndices :
                  AddNewPointToLine(o, p, i)
             \/ \E point \in CurrentPointModels : DeletePointFromLine(point)
     /\ remote' # remote
          => /\ Cardinality(PersistenceCalls(calls')) =
                  Cardinality(PersistenceCalls(calls)) - 1
             /\ \E k \in 1..Len(calls) :
                  InsertNewPointResolved(k) \/ DeletePointResolved(k)]_vars

\* C21 witness: an insert is awaited, its point is in the lists and not yet
\* in the store.
C21_Witness ==
  /\ Len(calls) = 1
  /\ calls[1].op = "add"
  /\ calls[1].pnt \in Range(objPts[calls[1].obj])
  /\ calls[1].pnt \in Range(CurrentPoints)
  /\ remote[IriOf(calls[1].pnt)].obj = 0
  /\ remote = InitialRemote

\* C22: whenever a remote call is awaited, isLoading is true.
C22_LoadingWhilePending ==
  calls # <<>> => isLoading = TRUE

\* A pan is under way: the mode is PANNING and panStart is set.
PanInProgress(state) == state.mode = "PANNING" /\ state.panStart # Null

\* C23: in a pan, updatePanning(p) adds p - panStart to the view offsets and
\* makes p the new panStart, so that since the startPanning(p0) that began
\* the pan the offsets have changed by p - p0; endPanning leaves the offsets
\* at that total, sets mode NONE and clears panStart; startPanning,
\* updatePanning and endPanning change neither the scale, nor the selection,
\* nor a point.
C23_PanAddsPointerDelta ==
  [][/\ \A p \in ViewPositions :
          (UpdatePanning(p) /\ PanInProgress(interactionState))
          => /\ viewTransform'.offsetX =
                  QAdd(viewTransform.offsetX, Q(p[1] - interactionState.panStart[1]))
             /\ viewTransform'.offsetY =
                  QAdd(viewTransform.offsetY, Q(p[2] - interactionState.panStart[2]))
             /\ interactionState' = [interactionState EXCEPT !.panStart = p]
             /\ panOrigin # Null
                => /\ viewTransform'.offsetX = QAdd(panOrigin.x, Q(p[1] - panOrigin.p[1]))
                   /\ viewTransform'.offsetY = QAdd(panOrigin.y, Q(p[2] - panOrigin.p[2]))
     /\ (EndPanning /\ panOrigin # Null)
          => /\ PanInProgress(interactionState)
             /\ viewTransform'.offsetX =
                  QAdd(panOrigin.x, Q(interactionState.panStart[1] - panOrigin.p[1]))
             /\ viewTransform'.offsetY =
                  QAdd(panOrigin.y, Q(interactionState.panStart[2] - panOrigin.p[2]))
     /\ EndPanning
          => /\ interactionState'.mode = "NONE"
             /\ interactionState'.panStart = Null
     /\ (\/ EndPanning
         \/ \E p \in ViewPositions : StartPanning(p) \/ UpdatePanning(p))
          => /\ viewTransform'.scale = viewTransform.scale
             /\ interactionState'.selectedPoints = interactionState.selectedPoints
             /\ pt' = pt]_vars

\* C23 witness: a pan begun at (3,1) with the offsets at (0,0) has been
\* updated to (0,0), with a point selected.
C23_Witness ==
  /\ interactionState.mode = "PANNING"
  /\ panOrigin = [p |-> <<3, 1>>, x |-> Q(0), y |-> Q(0)]
  /\ interactionState.panStart = <<0, 0>>
  /\ viewTransform.offsetX = Q(-3)
  /\ viewTransform.offsetY = Q(-1)
  /\ interactionState.selectedPoints = {1}

\* viewport = diagram * scale + offset, and the diagram coordinate shown at a
\* viewport coordinate.
ToViewport(d, scale, offset) == QAdd(QMul(d, scale), offset)
ToDiagram(v, scale, offset) == QDiv(QSub(v, offset), scale)

\* C24: zoom(center, delta) multiplies the scale by f (the zoom factor when
\* delta < 0, its inverse otherwise) and makes each offset
\* center - (center - offset) * f, so that the diagram point shown at the
\* cursor before the zoom is shown there after it; it changes neither the
\* mode nor the selection.
C24_ZoomKeepsCursorPoint ==
  [][\A center \in ZoomCenters, delta \in WheelDeltas :
       Zoom(center, delta)
       => LET f == IF delta < 0 THEN ZoomFactor ELSE <<ZoomFactor[2], ZoomFactor[1]>>
              dX == ToDiagram(Q(center[1]), viewTransform.scale, viewTransform.offsetX)
              dY == ToDiagram(Q(center[2]), viewTransform.scale, viewTransform.offsetY)
          IN  /\ viewTransform'.scale = QMul(viewTransform.scale, f)
              /\ viewTransform'.offsetX =
                   QSub(Q(center[1]), QMul(QSub(Q(center[1]), viewTransform.offsetX), f))
              /\ viewTransform'.offsetY =
                   QSub(Q(center[2]), QMul(QSub(Q(center[2]), viewTransform.offsetY), f))
              /\ ToViewport(dX, viewTransform.scale, viewTransform.offsetX) = Q(center[1])
              /\ ToViewport(dX, viewTransform'.scale, viewTransform'.offsetX) = Q(center[1])
              /\ ToViewport(dY, viewTransform'.scale, viewTransform'.offsetY) = Q(center[2])
              /\ (viewTransform = InitialView /\ center = <<100, 100>> /\ delta < 0)
                 => viewTransform' = [scale |-> <<11, 10>>, offsetX |-> Q(-10),
                                      offsetY |-> Q(-10)]
              /\ interactionState' = interactionState]_vars

\* C24 witness: the zoom in at the cursor (100,100) from scale 1 and offsets
\* (0,0), with a point selected.
C24_Witness ==
  /\ zoomCount = 1
  /\ viewTransform = [scale |-> <<11, 10>>, offsetX |-> Q(-10), offsetY |-> Q(-10)]
  /\ interactionState.selectedPoints = {1}

\* C25: togglePointSelection(id), in whatever mode, takes id out of the
\* selection if it is in it and puts it in otherwise, and changes no other
\* membership, nor the mode, dragStart, dragEnd, panStart, the snapshot map
\* or a point; a second toggle of the same id gives the selection back.
C25_ToggleFlipsOneMembership ==
  [][\A id \in DragIris :
       TogglePointSelection(id)
       => /\ (id \in interactionState'.selectedPoints)
               <=> (id \notin interactionState.selectedPoints)
          /\ \A other \in Iris \ {id} :
               (other \in interactionState'.selectedPoints)
                 <=> (other \in interactionState.selectedPoints)
          /\ interactionState'.mode = interactionState.mode
          /\ interactionState'.dragStart = interactionState.dragStart
          /\ interactionState'.dragEnd = interactionState.dragEnd
          /\ interactionState'.panStart = interactionState.panStart
          /\ interactionState'.originalPositions = interactionState.originalPositions
          /\ pt' = pt
          /\ UNCHANGED <<dgPts, objPts, diagramData, viewTransform, positionUpdateEvent>>
          /\ ToggledSelection(interactionState', id) = interactionState]_vars

\* C25 witness: during a drag that began with point 1 selected, point 1 was
\* toggled off and point 2 on.
C25_Witness ==
  /\ interactionState.mode = "DRAGGING"
  /\ gesture = "clean"
  /\ DOMAIN interactionState.originalPositions = {1}
  /\ interactionState.selectedPoints = {2}
  /\ interactionState.dragEnd # interactionState.dragStart

\* C26: a step that takes the mode from DRAGGING to another mode either
\* publishes a position update or leaves every snapshotted point of the
\* diagram at its snapshot coordinates.
C26_LeavingDragRestoresOrPublishes ==
  [][(interactionState.mode = "DRAGGING" /\ interactionState'.mode # "DRAGGING")
     => \/ nPublished' # nPublished
        \/ \A p \in Range(CurrentPoints) :
             IriOf(p) \in DOMAIN interactionState.originalPositions
             => <<pt'[p].x, pt'[p].y>> = interactionState.originalPositions[IriOf(p)]]_vars

\* C27: when an endDragging that ends a drag made of updateDragging and
\* togglePointSelection calls publishes a position update, every diagram
\* point listed in the update is at its coordinates of drag start plus the
\* update's (dx, dy).
C27_CommittedPointsMatchUpdate ==
  [][\A position \in Positions :
       (/\ EndDragging(position)
        /\ DragInProgress(interactionState)
        /\ gesture = "clean"
        /\ nPublished' # nPublished)
       => \A p \in Range(CurrentPoints) :
            IriOf(p) \in positionUpdateEvent'.points
            => /\ pt'[p].x = ptAtStart[p][1] + positionUpdateEvent'.dx
               /\ pt'[p].y = ptAtStart[p][2] + positionUpdateEvent'.dy]_vars

\* C28: when the insertNewPoint of an addNewPointToLine fails after a
\* loadDiagramLayout has replaced the diagram the call works on, diagramData
\* is still the diagram loaded.
C28_RollbackKeepsNewerDiagram ==
  [][\A k \in 1..Len(calls) :
       (InsertNewPointRejected(k) /\ diagramData # calls[k].dg)
       => diagramData' = diagramData]_vars

\* pointUpdateData.sequenceNumber of the call c: the insertIndex as given.
SentSequenceNumber(c) == c.idx

\* C29: the call issued by addNewPointToLine carries, for the new point, the
\* sequence number that point has in the local model after the renumbering,
\* and as sibling updates the (iri, sequenceNumber) pairs of the object's
\* points in the local model.
C29_SentSequenceIsLocal ==
  [][\A o \in CurrentObjects, p \in AddPositions, i \in InsertIndices :
       AddNewPointToLine(o, p, i)
       => LET c == calls'[Len(calls')]
          IN  /\ SentSequenceNumber(c) = pt'[c.pnt].sequenceNumber
              /\ c.upd = [k \in 1..Len(objPts'[o]) |->
                            <<IriOf(objPts'[o][k]), pt'[objPts'[o][k]].sequenceNumber>>]]_vars

\* C30: whenever the mode is NONE, dragStart, dragEnd and panStart are null.
C30_NoAnchorsInModeNone ==
  interactionState.mode = "NONE"
    => /\ interactionState.dragStart = Null
       /\ interactionState.dragEnd = Null
       /\ interactionState.panStart = Null

\* C31: every selected iri, and every key of originalPositions, is the iri
\* of a point in the flattened list of the current diagram.
C31_SelectionWithinDiagram ==
  /\ interactionState.selectedPoints \subseteq IrisOf(CurrentPoints)
  /\ DOMAIN interactionState.originalPositions \subseteq IrisOf(CurrentPoints)

\* ------------------------------------------- every gesture handler together
\* The pointer positions of the gestures below.
ModePositions == {<<0, 0>>, <<4, 4>>}

NextModes ==
  \/ \E i \in IrisOf(CurrentPoints) \cap DragIris : TogglePointSelection(i)
  \/ \E p \in ModePositions : StartDragging(p)
  \/ \E p \in ModePositions : UpdateDragging(p)
  \/ \E p \in ModePositions : EndDragging(p)
  \/ \E p \in ModePositions : StartSelecting(p)
  \/ \E p \in ModePositions : UpdateSelecting(p)
  \/ CompleteSelecting
  \/ \E p \in ModePositions : StartPanning(p)
  \/ \E p \in ModePositions : UpdatePanning(p)
  \/ EndPanning

SpecModes == InitLoaded /\ [][NextModes]_vars
\* The calls the handlers answer with their early return: the mode is not the
\* one the handler continues in.
WrongModeCall ==
  \/ \E p \in ModePositions :
       UpdateDragging(p) /\ interactionState.mode # "DRAGGING"
  \/ \E p \in ModePositions :
       EndDragging(p) /\ interactionState.mode # "DRAGGING"
  \/ \E p \in ModePositions :
       UpdatePanning(p) /\ interactionState.mode # "PANNING"
  \/ CompleteSelecting /\ interactionState.mode # "SELECTING"

\* C32: updateDragging and endDragging outside mode DRAGGING, updatePanning
\* outside mode PANNING and completeSelecting outside mode SELECTING leave the
\* mode, the anchors, the selection, the snapshot map, the view, the point
\* lists and every coordinate as they were, and publish no position update.
C32_WrongModeCallsChangeNothing ==
  [][WrongModeCall =>
       UNCHANGED <<interactionState, viewTransform, heap, positionUpdateEvent,
                   nPublished>>]_vars

\* endDragging was called while panning, after a drag had moved point 1 by
\* (4, 4): the preview is neither taken back nor published.
C32_Witness ==
  /\ interactionState.mode = "PANNING"
  /\ gesture = "none"
  /\ positionUpdateEvent = Null
  /\ nPublished = 0
  /\ interactionState.dragStart = <<0, 0>>
  /\ interactionState.dragEnd = <<4, 4>>
  /\ interactionState.originalPositions = (1 :> <<0, 0>>)
  /\ \E p \in Range(CurrentPoints) : IriOf(p) = 1 /\ pt[p].x = 4 /\ pt[p].y = 4

\* ------------------------------------ the four asynchronous operations
NextAsync ==
  \/ \E e \in Endpoints : LoadDiagramProfiles(e)
  \/ \E k \in DOMAIN calls, found \in DiagramLists : ProfilesQueryResolved(k, found)
  \/ \E k \in DOMAIN calls : ProfilesQueryRejected(k)
  \/ \E d \in DiagramIris \cup {NoDiagram} : SetSelectedDiagram(d)
  \/ \E d \in DiagramIris \cup {NoDiagram} : LoadDiagramLayout(d)
  \/ \E k \in DOMAIN calls : LayoutQueryResolved(k)
  \/ \E k \in DOMAIN calls : LayoutQueryRejected(k)
  \/ \E o \in {c \in CurrentObjects : c[2] \in EditObjects},
          p \in AddPositions, i \in InsertIndices :
       AddNewPointToLine(o, p, i)
  \/ \E k \in DOMAIN calls : InsertNewPointResolved(k)
  \/ \E k \in DOMAIN calls : InsertNewPointRejected(k)
  \/ \E p \in CurrentPointModels : DeletePointFromLine(p)
  \/ \E k \in DOMAIN calls : DeletePointResolved(k)
  \/ \E k \in DOMAIN calls : DeletePointRejected(k)

\* The numbers the invocations in progress carry.
CallIds == 1..MaxPending

\* The invocation numbered i awaits a remote call.
InProgress(i) == \E k \in DOMAIN calls : calls[k].id = i

\* The remote call that invocation i awaits resolves or rejects, and the
\* handler goes on to its next await or to its end.
Settles(i) ==
  \E k \in DOMAIN calls :
    /\ calls[k].id = i
    /\ \/ ProfilesQueryRejected(k)
       \/ LayoutQueryRejected(k)
       \/ InsertNewPointRejected(k)
       \/ DeletePointRejected(k)
       \/ \E found \in DiagramLists : ProfilesQueryResolved(k, found)
       \/ LayoutQueryResolved(k)
       \/ InsertNewPointResolved(k)
       \/ DeletePointResolved(k)

\* Every remote call awaited is answered in the end.
SpecAsyncFair ==
  /\ Init
  /\ [][NextAsync]_vars
  /\ \A i \in CallIds : WF_vars(Settles(i))

\* C33: when every remote call awaited resolves or rejects in the end, every
\* invocation of addNewPointToLine, deletePointFromLine, loadDiagramLayout and
\* loadDiagramProfiles in progress completes in the end, and whenever none is
\* in progress isLoading is false.
C33_InvocationsComplete ==
  /\ [](calls = <<>> => isLoading = FALSE)
  /\ \A i \in CallIds : InProgress(i) ~> ~InProgress(i)

\* A delete whose remote call failed has completed with no diagram selected
\* to reload.
C33_Witness ==
  /\ statusText = "Error: deletePoint failed"
  /\ calls = <<>>
  /\ isLoading = FALSE
  /\ diagramData # 0

====
